---- MODULE Spec2Model ----
(***************************************************************************)
(* Model of the Yakoo spaced-repetition scheduler: the FSRS memory model   *)
(* (utils/fsrs.ts), the due predicate (utils/srs.ts), the daily log        *)
(* (utils/storage.ts) and the Review page's queue (pages/Review.tsx).      *)
(*                                                                         *)
(* Numbers.  Times are integers counted in ticks of 1/10000 day (8.64 s);  *)
(* the code's floating-point quantities (stability, difficulty, days,      *)
(* retrievability) are fixed-point integers scaled by 10000, and the       *)
(* values the code stores after toFixed(2) are integers scaled by 100.     *)
(* Infinity and NaN are two integers outside the range of every finite     *)
(* value.                                                                  *)
(***************************************************************************)
EXTENDS Integers, Sequences, FiniteSets, TLC

VARIABLES
    cards,               \* localStorage 'mandarin-anki-cards': the stored deck
    now,                 \* the wall clock, in ticks
    settings,            \* localStorage 'mandarin-anki-settings'
    reviewLog,           \* localStorage 'mandarin-anki-review-log'
    session,             \* localStorage 'mandarin-anki-session'
    mounted,             \* whether the Review component is mounted
    queue,               \* Review state: queue
    initialQueueLength,  \* Review state: initialQueueLength
    completedCount,      \* Review state: completedCount
    hasMoreNewCards,     \* whether the last render offers "Study 10 More New Words"
    last                 \* the last operation performed, with its inputs and result

vars == <<cards, now, settings, reviewLog, session, mounted, queue,
          initialQueueLength, completedCount, hasMoreNewCards, last>>

-----------------------------------------------------------------------------
(* Fixed-point arithmetic *)

One == 10000
Hundredth == 100
Infinity == 2000000000
NaN == 0 - 2000000000

Min(a, b) == IF a <= b THEN a ELSE b
Max(a, b) == IF a >= b THEN a ELSE b

IsFinite(x) == x # NaN /\ x # Infinity

\* Math.max / Math.min of JavaScript: NaN if either argument is NaN.
MathMax(a, b) == IF a = NaN \/ b = NaN THEN NaN ELSE Max(a, b)
MathMin(a, b) == IF a = NaN \/ b = NaN THEN NaN ELSE Min(a, b)

\* a * b of two non-negative scaled numbers, saturating at Infinity when the
\* product is beyond 200000 (more than five times maximum_interval).
MulPos(a, b) ==
    LET ah == a \div One
        al == a % One
        bh == b \div One
        bl == b % One
    IN  IF (ah + 1) * (bh + 1) > 200000 THEN Infinity
        ELSE ah * bh * One + ah * bl + al * bh + (al * bl) \div One

\* a * b of JavaScript numbers: NaN propagates, 0 * Infinity is NaN.
Mul(a, b) ==
    IF a = NaN \/ b = NaN THEN NaN
    ELSE IF a = Infinity \/ b = Infinity
         THEN (IF a = 0 \/ b = 0 THEN NaN ELSE Infinity)
    ELSE IF (a < 0) = (b < 0) THEN MulPos(Max(a, 0 - a), Max(b, 0 - b))
    ELSE 0 - MulPos(Max(a, 0 - a), Max(b, 0 - b))

\* One * n / d for 0 <= n, 0 < d, without overflow.
Ratio(n, d) ==
    LET k == d \div 200000 + 1
    IN  (One * (n \div k)) \div (d \div k)

\* Math.exp on [0, 1]: the Taylor series to the ninth power.
RECURSIVE ExpSeries(_, _, _)
ExpSeries(x, term, k) ==
    IF k > 9 THEN 0
    ELSE term + ExpSeries(x, (term * x) \div (One * k), k + 1)

E1 == 27183   \* Math.exp(1)

RECURSIVE Exp(_)
Exp(x) ==
    IF x = NaN THEN NaN
    ELSE IF x < 0 THEN (One * One) \div Exp(0 - x)
    ELSE IF x > One THEN MulPos(Exp(x - One), E1)
    ELSE ExpSeries(x, One, 1)

Ln2 == 6931   \* Math.log(2)

\* Math.log for x > 0: halve or double into [1, 2], then the atanh series.
RECURSIVE Ln(_)
Ln(x) ==
    IF x > 2 * One THEN Ln(x \div 2) + Ln2
    ELSE IF x < One THEN Ln(2 * x) - Ln2
    ELSE LET z  == ((x - One) * One) \div (x + One)
             z2 == (z * z) \div One
             z3 == (z * z2) \div One
             z5 == (z3 * z2) \div One
             z7 == (z5 * z2) \div One
         IN  2 * (z + z3 \div 3 + z5 \div 5 + z7 \div 7)

\* Math.pow(x, y) for x >= 0 and a constant exponent |y| < 1.
Pow(x, y) ==
    IF x = NaN THEN NaN
    ELSE IF x = Infinity THEN (IF y < 0 THEN 0 ELSE Infinity)
    ELSE IF x = 0 THEN (IF y < 0 THEN Infinity ELSE 0)
    ELSE Exp((y * Ln(x)) \div One)

\* a + b and a - b of JavaScript numbers (no operand is -Infinity here).
Add(a, b) ==
    IF a = NaN \/ b = NaN THEN NaN
    ELSE IF a = Infinity \/ b = Infinity THEN Infinity
    ELSE a + b

Sub(a, b) ==
    IF a = NaN \/ b = NaN THEN NaN
    ELSE IF b = Infinity THEN NaN
    ELSE IF a = Infinity THEN Infinity
    ELSE a - b

\* Math.round of a scaled number, to a whole number.
Round(x) == IF IsFinite(x) THEN (x + One \div 2) \div One ELSE x

\* parseFloat(x.toFixed(2)): a scaled number to hundredths.
ToFixed2(x) == IF IsFinite(x) THEN (x + 50) \div Hundredth ELSE x

-----------------------------------------------------------------------------
(* Cards and timestamps *)

\* srsDue and srsLastReview are ISO strings: a tick count stands for the valid
\* string of that instant, EmptyStr for '' or an absent field (both falsy),
\* BadStr for a string that Date cannot parse.
EmptyStr == 0 - 1
BadStr == 0 - 2

\* new Date(str).getTime()
getTime(str) == IF str >= 0 THEN str ELSE NaN

\* Date.prototype.toISOString: defined for a finite time value only.
CanFormat(t) == IsFinite(t)

Ratings == {"again", "hard", "good", "easy"}
SrsStates == {"new", "learning", "review", "relearning"}

\* What Array.prototype.find returns when no card matches.
undefined ==
    [id |-> 0, srsState |-> "undefined", srsStability |-> 0, srsDifficulty |-> 0,
     srsDue |-> EmptyStr, srsLastReview |-> EmptyStr, srsRepetitions |-> 0]

\* A card as mergeCards creates it.
NewCard(id) ==
    [id |-> id, srsState |-> "new", srsStability |-> 0, srsDifficulty |-> 0,
     srsDue |-> EmptyStr, srsLastReview |-> EmptyStr, srsRepetitions |-> 0]

\* A card as Library.handleAdd creates it at time t: new, with a due date.
LibraryCard(id, t) ==
    [id |-> id, srsState |-> "new", srsStability |-> 0, srsDifficulty |-> 500,
     srsDue |-> t, srsLastReview |-> EmptyStr, srsRepetitions |-> 0]

\* card with the fields fsrs.review returned: { ...currentCard, ...updates }
Updated(card, updates) ==
    [card EXCEPT !.srsState = updates.srsState,
                 !.srsStability = updates.srsStability,
                 !.srsDifficulty = updates.srsDifficulty,
                 !.srsDue = updates.srsDue,
                 !.srsLastReview = updates.srsLastReview]

-----------------------------------------------------------------------------
(* utils/fsrs.ts *)

\* P.w, scaled by One.
w == <<4000, 6000, 24000, 58000,
       49300, 9400, 8600, 100,
       14900, 1400, 9400,
       21800, 500, 3400, 12600,
       2900, 26100>>

\* P.w[i], with the code's 0-based index.
W(i) == w[i + 1]

request_retention == 9000
maximum_interval == 365000000

Grade(rating) ==
    CASE rating = "again" -> 1
      [] rating = "hard"  -> 2
      [] rating = "good"  -> 3
      [] rating = "easy"  -> 4

initStability(grade) == MathMax(One \div 10, W(grade - 1))

initDifficulty(grade) ==
    LET d == W(4) - (grade - 3) * W(5)
    IN  MathMin(10 * One, MathMax(One, d))

nextDifficulty(D, grade) ==
    LET next_d == D - W(6) * (grade - 3)
        new_d  == Add(Mul(W(7), initDifficulty(4)), Mul(One - W(7), next_d))
    IN  MathMin(10 * One, MathMax(One, new_d))

\* newS of nextRecallStability, before it is capped.
recallStability(D, S, R, grade) ==
    LET hardPenalty == IF grade = 2 THEN W(15) ELSE One
        easyBonus   == IF grade = 4 THEN W(16) ELSE One
        exp_w8      == Exp(W(8))
        pow_S_w9    == Pow(S, 0 - W(9))
        exp_w10_R   == Sub(Exp(Mul(W(10), Sub(One, R))), One)
    IN  Mul(S, Add(One,
                Mul(Mul(Mul(Mul(Mul(exp_w8, 11 * One - D), pow_S_w9),
                            exp_w10_R), hardPenalty), easyBonus)))

\* nextRecallStability without the cap at maximum_interval.
nextRecallStabilityUncapped(D, S, R, grade) == recallStability(D, S, R, grade)

nextRecallStability(D, S, R, grade) ==
    MathMin(maximum_interval, recallStability(D, S, R, grade))

nextForgetStability(D, S, R) ==
    LET newS == Mul(Mul(Mul(W(11), Pow(D, 0 - W(12))),
                        Sub(Pow(S + One, W(13)), One)),
                    Exp(Mul(W(14), Sub(One, R))))
    IN  MathMax(One \div 10, newS)

\* 9 * (1 / P.request_retention - 1), computed as 9 * (1 - r) / r so that the
\* quotient is exact at this scale: 1.0000 (1.0000000000000002 in IEEE doubles).
factor == (9 * (One * One - One * request_retention)) \div request_retention

\* The minimum short-term interval, 0.0035 days.
MinShortTerm == 35

\* nextInterval that applies the short-term rule to every card.
nextIntervalFractional(S, t, isShortTerm) ==
    Add(t, MathMax(MinShortTerm, Mul(S, factor)))

\* nextInterval, as the time value of dueDate (NaN or Infinity: Invalid Date).
nextInterval(S, t, isShortTerm) ==
    LET days0 == Mul(S, factor)
        days  == IF ~isShortTerm
                 THEN (IF IsFinite(days0) THEN MathMax(One, Round(days0) * One)
                       ELSE MathMax(One, days0))
                 ELSE MathMax(MinShortTerm, days0)
    IN  Add(t, days)

\* fsrs.review raising RangeError (toISOString of an Invalid Date).
Threw ==
    [threw |-> TRUE, srsState |-> "undefined", srsStability |-> 0,
     srsDifficulty |-> 0, srsDue |-> EmptyStr, srsLastReview |-> EmptyStr]

Returned(state, S, D, due, t) ==
    IF ~CanFormat(due) THEN Threw
    ELSE [threw |-> FALSE, srsState |-> state, srsStability |-> ToFixed2(S),
          srsDifficulty |-> ToFixed2(D), srsDue |-> due, srsLastReview |-> t]

\* NextStateNew that sends every first rating to learning.
NextStateNewAlwaysLearning(rating) == "learning"

\* NextStateReviewed that sends a lapse back to learning.
NextStateReviewedLapseToLearning(srsState, rating) ==
    IF rating = "again" THEN "learning"
    ELSE IF rating = "easy" \/ rating = "good" THEN "review"
    ELSE srsState

\* NextStateReviewed in which hard graduates the card like good and easy.
NextStateReviewedHardGraduates(srsState, rating) ==
    IF rating = "again" THEN "relearning" ELSE "review"

\* The state of the card after a rating (the two places nextState is chosen).
NextStateNew(rating) == IF rating = "again" THEN "learning" ELSE "review"

NextStateReviewed(srsState, rating) ==
    IF rating = "again" THEN "relearning"
    ELSE IF rating = "easy" \/ rating = "good" THEN "review"
    ELSE srsState

\* fsrs.review(card, rating, now)
review(card, rating, t) ==
    LET lastReview  == IF card.srsLastReview # EmptyStr
                       THEN getTime(card.srsLastReview) ELSE t
        elapsedDays == MathMax(0, Sub(t, lastReview))
        S == card.srsStability * Hundredth
        D == card.srsDifficulty * Hundredth
        retrievability ==
            IF elapsedDays = NaN THEN NaN
            ELSE IF S = 0 THEN (IF elapsedDays = 0 THEN NaN ELSE 0)
            ELSE IF S <= 200000000 THEN Ratio(9 * S, 9 * S + elapsedDays)
            ELSE Ratio(S, S + elapsedDays \div 9)
        grade == Grade(rating)
    IN  IF card.srsState = "new"
        THEN LET D0 == initDifficulty(grade)
                 S0 == initStability(grade)
                 nextState == NextStateNew(rating)
             IN  Returned(nextState, S0, D0,
                          nextInterval(S0, t, nextState = "learning"), t)
        ELSE LET nextD == nextDifficulty(D, grade)
                 nextS == IF rating = "again"
                          THEN nextForgetStability(D, S, retrievability)
                          ELSE nextRecallStability(D, S, retrievability, grade)
                 nextState == NextStateReviewed(card.srsState, rating)
             IN  Returned(nextState, nextS, nextD,
                          nextInterval(nextS, t, nextState = "relearning"), t)

-----------------------------------------------------------------------------
(* utils/srs.ts *)

\* isCardDue that needs the due date to lie strictly in the past.
isCardDueStrict(card, t) ==
    IF card.srsDue = EmptyStr THEN FALSE
    ELSE LET dueDate == getTime(card.srsDue)
         IN  IF dueDate = NaN THEN FALSE ELSE dueDate < t

\* isCardDue(card), with Date.now() = t
isCardDue(card, t) ==
    IF card.srsDue = EmptyStr THEN FALSE
    ELSE LET dueDate == getTime(card.srsDue)
         IN  IF dueDate = NaN THEN FALSE ELSE dueDate <= t

-----------------------------------------------------------------------------
(* Array helpers *)

\* The ids of a list of cards: arr.map(c => c.id)
Ids(arr) == [i \in 1..Len(arr) |-> arr[i].id]

IdSet(arr) == {arr[i].id : i \in 1..Len(arr)}

\* arr.slice(0, n)
Slice(arr, n) == SubSeq(arr, 1, Min(n, Len(arr)))

\* Array.from(new Set(ids)): the first occurrence of each id, in order.
RECURSIVE Dedup(_)
Dedup(ids) ==
    IF ids = <<>> THEN <<>>
    ELSE LET front == Dedup(SubSeq(ids, 1, Len(ids) - 1))
             x     == ids[Len(ids)]
         IN  IF \E i \in 1..Len(front) : front[i] = x THEN front
             ELSE Append(front, x)

\* allCards.find(c => c.id === id)
Find(allCards, id) ==
    IF \E i \in 1..Len(allCards) : allCards[i].id = id
    THEN allCards[CHOOSE i \in 1..Len(allCards) :
                      /\ allCards[i].id = id
                      /\ \A j \in 1..(i - 1) : allCards[j].id # id]
    ELSE undefined

\* arr.sort((a, b) => getTime(a.srsDue) - getTime(b.srsDue)) on cards with
\* valid due dates: ascending, and stable (equal keys keep their order).
RECURSIVE SortByDue(_)
SortByDue(arr) ==
    IF arr = <<>> THEN <<>>
    ELSE LET front == SortByDue(SubSeq(arr, 1, Len(arr) - 1))
             x     == arr[Len(arr)]
             k     == Cardinality({i \in 1..Len(front) :
                                      getTime(front[i].srsDue) <= getTime(x.srsDue)})
         IN  SubSeq(front, 1, k) \o <<x>> \o SubSeq(front, k + 1, Len(front))

-----------------------------------------------------------------------------
(* utils/storage.ts: the daily log *)

TicksPerDay == One

\* new Date().toLocaleDateString('en-CA'): the local calendar day of t.
Today(t) == t \div TicksPerDay

\* No 'mandarin-anki-review-log' item in localStorage.
NoLog == [date |-> 0 - 1, newCardsCount |-> 0, totalReviews |-> 0]

\* storage.getDailyLog(); timeSpent plays no part in scheduling and is left out.
getDailyLog(log, t) ==
    IF log # NoLog /\ log.date = Today(t)
    THEN [date |-> Today(t), newCardsCount |-> log.newCardsCount,
          totalReviews |-> log.totalReviews]
    ELSE [date |-> Today(t), newCardsCount |-> 0, totalReviews |-> 0]

getDailyCount(log, t) == getDailyLog(log, t).newCardsCount

\* logReview that counts every rated card as a new card.
logReviewCountingAll(log, t, isNewCard) ==
    LET l == getDailyLog(log, t)
    IN  [date |-> l.date,
         newCardsCount |-> l.newCardsCount + 1,
         totalReviews |-> l.totalReviews + 1]

\* storage.logReview(isNewCard): the log it writes back.
logReview(log, t, isNewCard) ==
    LET l == getDailyLog(log, t)
    IN  [date |-> l.date,
         newCardsCount |-> IF isNewCard THEN l.newCardsCount + 1 ELSE l.newCardsCount,
         totalReviews |-> l.totalReviews + 1]

-----------------------------------------------------------------------------
(* pages/Review.tsx: loadQueue *)

\* No 'mandarin-anki-session' item in localStorage.
NoSession ==
    [saved |-> FALSE, queue |-> <<>>, initialQueueLength |-> 0, completedCount |-> 0]

\* JSON.stringify / JSON.parse of the session: an undefined queue entry is
\* written as null, which has no id either; the record undefined stands for it.
SavedSession(q, len, count) ==
    [saved |-> TRUE, queue |-> q, initialQueueLength |-> len, completedCount |-> count]

\* Step 1: the session restored from localStorage.
Restored(sess) ==
    IF sess.saved /\ Len(sess.queue) > 0
    THEN [queue |-> sess.queue,
          length |-> IF sess.initialQueueLength # 0 THEN sess.initialQueueLength
                     ELSE Len(sess.queue),
          count |-> sess.completedCount]
    ELSE [queue |-> <<>>, length |-> 0, count |-> 0]

\* restoredQueue.map(c => c.id) raises TypeError on a null entry.
LoadThrows(sess) ==
    \E i \in 1..Len(Restored(sess).queue) : Restored(sess).queue[i] = undefined

IsDueReview(c, t) == c.srsState = "review" /\ isCardDue(c, t)
IsActiveLearning(c, t) ==
    (c.srsState = "learning" \/ c.srsState = "relearning") /\ isCardDue(c, t)
IsNew(c) == c.srsState = "new"

\* dueCards without the sort: stored order.
dueCardsUnsorted(allCards, t) ==
    SelectSeq(allCards, LAMBDA c : IsDueReview(c, t))

dueCards(allCards, t) ==
    SortByDue(SelectSeq(allCards, LAMBDA c : IsDueReview(c, t)))

activeLearningCards(allCards, t) ==
    SelectSeq(allCards, LAMBDA c : IsActiveLearning(c, t))

\* remainingQuota that forgets what was consumed today.
remainingQuotaIgnoringLog(st, log, t) == Max(0, st.newCardsPerDay)

remainingQuota(st, log, t) == Max(0, st.newCardsPerDay - getDailyCount(log, t))

newCards(allCards, st, log, t) ==
    Slice(SelectSeq(allCards, IsNew), remainingQuota(st, log, t))

\* The combined list, before the review limit.
Candidates(allCards, st, log, t) ==
    activeLearningCards(allCards, t) \o dueCards(allCards, t)
        \o newCards(allCards, st, log, t)

\* freshCandidates that applies no review limit.
freshCandidatesUnlimited(allCards, st, log, t) ==
    Candidates(allCards, st, log, t)

freshCandidates(allCards, st, log, t) ==
    IF st.reviewLimit > 0
    THEN Slice(Candidates(allCards, st, log, t), st.reviewLimit)
    ELSE Candidates(allCards, st, log, t)

\* Step 3: the fresh candidates that are not in the restored queue.
newToAdd(restoredQueue, fresh) ==
    SelectSeq(fresh, LAMBDA c : c.id \notin IdSet(restoredQueue))

\* The merged list, before duplicates are removed.
Merged(restoredQueue, fresh) ==
    IF Len(restoredQueue) = 0 THEN fresh
    ELSE restoredQueue \o newToAdd(restoredQueue, fresh)

\* Resolve without the Set: every entry looked up, duplicates kept.
ResolveKeepingDuplicates(allCards, list) ==
    [i \in 1..Len(list) |-> Find(allCards, list[i].id)]

\* Remove duplicates and look every id up in allCards.
Resolve(allCards, list) ==
    LET ids == Dedup(Ids(list))
    IN  [i \in 1..Len(ids) |-> Find(allCards, ids[i])]

\* What loadQueue hands to setQueue, setInitialQueueLength, setCompletedCount.
loadQueue(allCards, st, log, sess, t) ==
    LET r     == Restored(sess)
        fresh == freshCandidates(allCards, st, log, t)
        m     == Merged(r.queue, fresh)
    IN  [queue |-> Resolve(allCards, m),
         initialQueueLength |->
             IF Len(r.queue) = 0 THEN Len(m)
             ELSE r.length + Len(newToAdd(r.queue, fresh)),
         completedCount |-> IF Len(r.queue) = 0 THEN 0 ELSE r.count]

\* SaveEffect that never removes the session item.
SaveEffectNeverClears(sess, q, len, count) ==
    IF Len(q) > 0 THEN SavedSession(q, len, count)
    ELSE sess

\* The session item after a render with this state (loadQueue's own save and
\* the save effect agree): saved while the queue is non-empty, removed when it
\* is empty and work was done, otherwise left as it is.
SaveEffect(sess, q, len, count) ==
    IF Len(q) > 0 THEN SavedSession(q, len, count)
    ELSE IF count > 0 THEN NoSession
    ELSE sess

-----------------------------------------------------------------------------
(* pages/Review.tsx: handleRate and the finished screen *)

\* The position at which a failed card goes back into the rest of the queue.
ReinsertAt == 3

\* insertIndex that puts the failed card at the end of the queue.
insertIndexAtEnd(next) == Len(next)

insertIndex(next) == Min(Len(next), ReinsertAt)

\* completedCount that also counts a card rated again.
nextCompletedCountAlways(rating, count) == count + 1

\* The completedCount after a rating.
nextCompletedCount(rating, count) ==
    IF rating = "again" THEN count ELSE count + 1

\* [...prev] after next.shift(), which leaves an empty array empty.
Shifted(prev) == IF prev = <<>> THEN <<>> ELSE Tail(prev)

\* nextQueue that also puts a card rated hard back into the queue.
nextQueueHardReturns(prev, rating, updatedCard) ==
    LET next == Shifted(prev)
    IN  IF rating = "again" \/ rating = "hard"
        THEN SubSeq(next, 1, insertIndex(next)) \o <<updatedCard>>
                 \o SubSeq(next, insertIndex(next) + 1, Len(next))
        ELSE next

\* The queue after a rating: both setQueue updaters.
nextQueue(prev, rating, updatedCard) ==
    LET next == Shifted(prev)
    IN  IF rating = "again"
        THEN SubSeq(next, 1, insertIndex(next)) \o <<updatedCard>>
                 \o SubSeq(next, insertIndex(next) + 1, Len(next))
        ELSE next

\* allCards.findIndex(c => c.id === id), 1-based; 0 when there is none.
FindIndex(allCards, id) ==
    IF \E i \in 1..Len(allCards) : allCards[i].id = id
    THEN CHOOSE i \in 1..Len(allCards) :
             /\ allCards[i].id = id
             /\ \A j \in 1..(i - 1) : allCards[j].id # id
    ELSE 0

\* storedCards that keeps the card's new state in the queue only.
storedCardsUnsaved(allCards, cardIndex, updatedCard) == allCards

\* The deck handleRate leaves in storage: the rated card replaced, if it is
\* still in the deck.
storedCards(allCards, cardIndex, updatedCard) ==
    IF cardIndex # 0 THEN [allCards EXCEPT ![cardIndex] = updatedCard]
    ELSE allCards

\* The size of the batch "Study 10 More New Words" loads.
MoreBatch == 10

\* The finished screen (rendered when the queue is empty) offers the
\* override when new cards are left and today's quota is used up.
Rendered(q, allCards, st, log, t) ==
    /\ Len(q) = 0
    /\ \E i \in 1..Len(allCards) : allCards[i].srsState = "new"
    /\ getDailyCount(log, t) >= st.newCardsPerDay

\* moreCards that takes every new card.
moreCardsAll(allCards) == SelectSeq(allCards, IsNew)

moreCards(allCards) == Slice(SelectSeq(allCards, IsNew), MoreBatch)

-----------------------------------------------------------------------------
(* Actions *)

\* The record kept in last: the operation, its rating if any, and the number
\* of fsrs.review calls made so far.
Op(name, rating, n) ==
    [op |-> name, rating |-> rating, n |-> n, result |-> "none"]

\* The call of a function that returned a boolean.
Answer(name, value, n) ==
    [op |-> name, rating |-> "none", n |-> n,
     result |-> IF value THEN "true" ELSE "false"]

\* The Review component mounts and its first effect runs loadQueue.  A null
\* entry in the restored queue makes the effect raise, and the component never
\* shows a queue.
LoadQueue ==
    /\ ~mounted
    /\ IF LoadThrows(session)
       THEN /\ last' = Op("loadQueue threw", "none", last.n)
            /\ UNCHANGED <<mounted, queue, initialQueueLength, completedCount,
                           hasMoreNewCards, session>>
       ELSE LET r == loadQueue(cards, settings, reviewLog, session, now)
            IN  /\ mounted' = TRUE
                /\ hasMoreNewCards' = Rendered(r.queue, cards, settings, reviewLog, now)
                /\ queue' = r.queue
                /\ initialQueueLength' = r.initialQueueLength
                /\ completedCount' = r.completedCount
                /\ session' = IF Len(r.queue) > 0
                              THEN SavedSession(r.queue, r.initialQueueLength,
                                                r.completedCount)
                              ELSE NoSession
                /\ last' = Op("loadQueue", "none", last.n)
    /\ UNCHANGED <<cards, now, settings, reviewLog>>

\* A rating of the card shown: a button of the card, or keys 1 to 4.
\* handleRate returns at once when queue[0] is undefined, and ends with the
\* exception when fsrs.review raises; otherwise it stores the updated card,
\* logs the review, updates the queue, and the render that follows saves or
\* clears the session.
HandleRate(rating) ==
    /\ mounted
    /\ Len(queue) > 0
    /\ LET currentCard == queue[1]
           updates     == review(currentCard, rating, now)
           updatedCard == Updated(currentCard, updates)
           cardIndex   == FindIndex(cards, currentCard.id)
       IN  IF currentCard = undefined
           THEN /\ last' = Op("rate ignored", rating, last.n)
                /\ UNCHANGED <<cards, reviewLog, queue, completedCount, session,
                               hasMoreNewCards>>
           ELSE IF updates.threw
           THEN /\ last' = Op("rate threw", rating, last.n + 1)
                /\ UNCHANGED <<cards, reviewLog, queue, completedCount, session,
                               hasMoreNewCards>>
           ELSE /\ cards' = storedCards(cards, cardIndex, updatedCard)
                /\ reviewLog' = IF cardIndex # 0
                                THEN logReview(reviewLog, now, currentCard.srsState = "new")
                                ELSE reviewLog
                /\ queue' = nextQueue(queue, rating, updatedCard)
                /\ completedCount' = nextCompletedCount(rating, completedCount)
                /\ session' = SaveEffect(session, queue', initialQueueLength,
                                         completedCount')
                /\ hasMoreNewCards' = Rendered(queue', cards', settings, reviewLog', now)
                /\ last' = Op("rate", rating, last.n + 1)
    /\ UNCHANGED <<now, settings, mounted, initialQueueLength>>

\* "Study 10 More New Words" on the finished screen.
LoadMoreNewCards ==
    /\ mounted
    /\ Len(queue) = 0
    /\ hasMoreNewCards
    /\ Len(moreCards(cards)) > 0
    /\ queue' = moreCards(cards)
    /\ initialQueueLength' = initialQueueLength + Len(moreCards(cards))
    /\ session' = SaveEffect(session, queue', initialQueueLength', completedCount)
    /\ hasMoreNewCards' = FALSE
    /\ last' = Op("loadMoreNewCards", "none", last.n)
    /\ UNCHANGED <<cards, now, settings, reviewLog, mounted, completedCount>>

\* The learner leaves the Review view: the component and its state are gone,
\* what it wrote to localStorage stays.
Exit ==
    /\ mounted
    /\ mounted' = FALSE
    /\ queue' = <<>>
    /\ initialQueueLength' = 0
    /\ completedCount' = 0
    /\ hasMoreNewCards' = FALSE
    /\ last' = Op("exit", "none", last.n)
    /\ UNCHANGED <<cards, now, settings, reviewLog, session>>

-----------------------------------------------------------------------------
(* The build step on its own: decks, settings, logs and persisted sessions
   drawn from bounded sets, then loadQueue. *)

MaxCards == 3   \* cards in a drawn deck
MaxQuota == 2   \* largest newCardsPerDay, reviewLimit and new-card count drawn

StartTime == 3 * TicksPerDay + TicksPerDay \div 2

\* The cards decks are drawn from, by id: cards created by mergeCards or
\* Library.handleAdd and rated at earlier times.
PoolIds == 1..7

PoolCard(id) ==
    CASE id = 1 -> Updated(NewCard(1), review(NewCard(1), "again", StartTime - 5000))
      [] id = 2 -> Updated(NewCard(2), review(NewCard(2), "hard", StartTime - 3 * TicksPerDay))
      [] id = 3 -> Updated(NewCard(3), review(NewCard(3), "good", StartTime - 3 * TicksPerDay))
      [] id = 4 -> NewCard(4)
      [] id = 5 -> LibraryCard(5, StartTime - TicksPerDay)
      [] id = 6 -> Updated(NewCard(6), review(NewCard(6), "easy", StartTime - TicksPerDay))
      [] id = 7 -> LET c == Updated(NewCard(7), review(NewCard(7), "good", StartTime - 3 * TicksPerDay))
                   IN  Updated(c, review(c, "again", StartTime - 15000))

\* The sequences without repetition over S of length at most n.
RECURSIVE InjSeqs(_, _)
InjSeqs(S, n) ==
    IF n = 0 THEN {<<>>}
    ELSE LET prev == InjSeqs(S, n - 1)
         IN  prev \cup {Append(q, x) : <<q, x>> \in
                           {y \in prev \X S :
                               /\ Len(y[1]) = n - 1
                               /\ \A i \in 1..Len(y[1]) : y[1][i] # y[2]}}

Decks == {[i \in 1..Len(ids) |-> PoolCard(ids[i])] : ids \in InjSeqs(PoolIds, MaxCards)}

SettingsDrawn == [newCardsPerDay : 0..MaxQuota, reviewLimit : 0..MaxQuota]

\* No log, a log of today, or a log of yesterday.
LogsDrawn ==
    {NoLog}
        \cup {[date |-> Today(StartTime), newCardsCount |-> n, totalReviews |-> n + 1] :
                 n \in 1..MaxQuota}
        \cup {[date |-> Today(StartTime) - 1, newCardsCount |-> MaxQuota,
               totalReviews |-> MaxQuota]}

\* Persisted sessions: none, or a queue of one or two earlier snapshots of
\* cards 1 and 4 (a card may since have been deleted from the deck, and one
\* id may be repeated), saved after one card had been completed.
SnapshotCards == {NewCard(1), NewCard(4)}

SessionsDrawn ==
    {NoSession}
        \cup {SavedSession(q, Len(q) + n, n) :
                 q \in {<<a>> : a \in SnapshotCards}
                         \cup {<<a, b>> : a \in SnapshotCards, b \in SnapshotCards},
                 n \in {1}}

InitBuild ==
    /\ cards \in Decks
    /\ now = StartTime
    /\ settings \in SettingsDrawn
    /\ reviewLog \in LogsDrawn
    /\ session \in SessionsDrawn
    /\ mounted = FALSE
    /\ queue = <<>>
    /\ initialQueueLength = 0
    /\ completedCount = 0
    /\ hasMoreNewCards = FALSE
    /\ last = Op("init", "none", 0)

NextBuild == LoadQueue

SpecBuild == InitBuild /\ [][NextBuild]_vars

-----------------------------------------------------------------------------
(* fsrs.review on its own: a newly created card, rated again and again at
   times drawn from a bounded set. *)

MaxReviews == 3   \* fsrs.review calls in one behaviour

\* Time that passes before a rating: none, ten minutes, a day, a month.
ElapsedChoices == {0, 70, TicksPerDay, 30 * TicksPerDay}

\* A card after Deck.resetProgress: new again, its last review date kept.
ResetCard(id, t) == [NewCard(id) EXCEPT !.srsLastReview = t]

FreshCards ==
    {NewCard(1), LibraryCard(1, StartTime - TicksPerDay),
     ResetCard(1, StartTime - TicksPerDay)}

\* The clock advances by dt and the card is rated: cards[1] becomes
\* { ...card, ...fsrs.review(card, rating, now) }, unless review raises.
ReviewCard(rating, dt) ==
    /\ last.n < MaxReviews
    /\ now' = now + dt
    /\ LET updates == review(cards[1], rating, now')
       IN  IF updates.threw
           THEN /\ cards' = cards
                /\ last' = Op("review threw", rating, last.n + 1)
           ELSE /\ cards' = <<Updated(cards[1], updates)>>
                /\ last' = Op("review", rating, last.n + 1)
    /\ UNCHANGED <<settings, reviewLog, session, mounted, queue,
                   initialQueueLength, completedCount, hasMoreNewCards>>

InitReview ==
    /\ cards \in {<<c>> : c \in FreshCards}
    /\ now = StartTime
    /\ settings = [newCardsPerDay |-> 0, reviewLimit |-> 0]
    /\ reviewLog = NoLog
    /\ session = NoSession
    /\ mounted = FALSE
    /\ queue = <<>>
    /\ initialQueueLength = 0
    /\ completedCount = 0
    /\ hasMoreNewCards = FALSE
    /\ last = Op("init", "none", 0)

NextReview == \E rating \in Ratings, dt \in ElapsedChoices : ReviewCard(rating, dt)

SpecReview == InitReview /\ [][NextReview]_vars

-----------------------------------------------------------------------------
(* fsrs.review on schedule: a newly created card, rated each time on the
   day it falls due, so that the intervals grow review after review. *)

MaxSchedule == 7   \* fsrs.review calls in one behaviour

\* The clock advances to the card's due date (a new card is rated at once)
\* and the card is rated.
ReviewWhenDue(rating) ==
    /\ last.n < MaxSchedule
    /\ now' = Max(now, cards[1].srsDue)
    /\ LET updates == review(cards[1], rating, now')
       IN  IF updates.threw
           THEN /\ cards' = cards
                /\ last' = Op("review threw", rating, last.n + 1)
           ELSE /\ cards' = <<Updated(cards[1], updates)>>
                /\ last' = Op("review", rating, last.n + 1)
    /\ UNCHANGED <<settings, reviewLog, session, mounted, queue,
                   initialQueueLength, completedCount, hasMoreNewCards>>

InitSchedule ==
    /\ cards = <<NewCard(1)>>
    /\ now = StartTime
    /\ settings = [newCardsPerDay |-> 0, reviewLimit |-> 0]
    /\ reviewLog = NoLog
    /\ session = NoSession
    /\ mounted = FALSE
    /\ queue = <<>>
    /\ initialQueueLength = 0
    /\ completedCount = 0
    /\ hasMoreNewCards = FALSE
    /\ last = Op("init", "none", 0)

NextSchedule == \E rating \in Ratings : ReviewWhenDue(rating)

SpecSchedule == InitSchedule /\ [][NextSchedule]_vars

-----------------------------------------------------------------------------
(* fsrs.review on stored cards of other origins: a card migrated from the
   SM-2 format, and reviewed cards whose srsLastReview is unparseable or lies
   in the future. *)

\* A card as migrateToFsrs converts it at time t from an SM-2 card that has
\* repetitions, no interval and ease factor 2.5.
MigratedCard(id, t) ==
    [id |-> id, srsState |-> "review", srsStability |-> 0, srsDifficulty |-> 600,
     srsDue |-> t, srsLastReview |-> EmptyStr, srsRepetitions |-> 1]

StoredCardsDrawn ==
    {MigratedCard(1, StartTime)}
        \cup {[PoolCard(3) EXCEPT !.srsState = st, !.srsLastReview = lr] :
                 st \in SrsStates,
                 lr \in {BadStr, StartTime - TicksPerDay, StartTime + TicksPerDay}}

InitReviewAny ==
    /\ cards \in {<<c>> : c \in StoredCardsDrawn}
    /\ now = StartTime
    /\ settings = [newCardsPerDay |-> 0, reviewLimit |-> 0]
    /\ reviewLog = NoLog
    /\ session = NoSession
    /\ mounted = FALSE
    /\ queue = <<>>
    /\ initialQueueLength = 0
    /\ completedCount = 0
    /\ hasMoreNewCards = FALSE
    /\ last = Op("init", "none", 0)

SpecReviewAny == InitReviewAny /\ [][NextReview]_vars

-----------------------------------------------------------------------------
(* isCardDue on its own: one card of any state whose due field is unset,
   unparseable, or a timestamp around the current time. *)

MaxSkew == 2   \* ticks between a drawn due date and a drawn current time

NowsDrawn == {StartTime, StartTime + TicksPerDay}

DuesDrawn ==
    {EmptyStr, BadStr} \cup {t + d : t \in NowsDrawn, d \in (0 - MaxSkew)..MaxSkew}

DueCardsDrawn ==
    {[NewCard(1) EXCEPT !.srsState = st, !.srsDue = due] :
        st \in SrsStates, due \in DuesDrawn}

InitDue ==
    /\ cards \in {<<c>> : c \in DueCardsDrawn}
    /\ now \in NowsDrawn
    /\ settings \in {[newCardsPerDay |-> 0, reviewLimit |-> 0]}
    /\ reviewLog = NoLog
    /\ session = NoSession
    /\ mounted = FALSE
    /\ queue = <<>>
    /\ initialQueueLength = 0
    /\ completedCount = 0
    /\ hasMoreNewCards = FALSE
    /\ last = Op("init", "none", 0)

IsCardDueCall ==
    /\ last.op = "init"
    /\ last' = Answer("isCardDue", isCardDue(cards[1], now), 0)
    /\ UNCHANGED <<cards, now, settings, reviewLog, session, mounted, queue,
                   initialQueueLength, completedCount, hasMoreNewCards>>

NextDue == IsCardDueCall

SpecDue == InitDue /\ [][NextDue]_vars

-----------------------------------------------------------------------------
(* The review session: the learner opens the Review view, rates the card
   shown, loads more new cards from the finished screen, leaves the view and
   comes back, while the days pass. *)

MaxDeck == 5      \* cards in a session deck
MaxRatings == 3   \* ratings in one behaviour
MaxDays == 1      \* days that pass in one behaviour

\* Session decks are the first cards, at most MaxDeck, of this order of the
\* pool.
DeckOrder == <<4, 1, 3, 5, 2, 7, 6>>

\* A deck just imported from a CSV file of two rows more than the override
\* loads: MoreBatch + 2 new cards.
ImportedDeck == [k \in 1..(MoreBatch + 2) |-> NewCard(Len(DeckOrder) + k)]

SessionDecks ==
    {[k \in 1..n |-> PoolCard(DeckOrder[k])] : n \in 0..Min(MaxDeck, Len(DeckOrder))}
        \cup {ImportedDeck}

\* One new card a day in sessions of at most MaxQuota cards, or MaxQuota new
\* cards a day and every due review.
SessionSettings ==
    {[newCardsPerDay |-> 1, reviewLimit |-> MaxQuota],
     [newCardsPerDay |-> MaxQuota, reviewLimit |-> 0]}

Init ==
    /\ cards \in SessionDecks
    /\ now = StartTime
    /\ settings \in SessionSettings
    /\ reviewLog = NoLog
    /\ session = NoSession
    /\ mounted = FALSE
    /\ queue = <<>>
    /\ initialQueueLength = 0
    /\ completedCount = 0
    /\ hasMoreNewCards = FALSE
    /\ last = Op("init", "none", 0)

\* The learner rates the card shown; a behaviour holds at most MaxRatings
\* ratings.
Rate ==
    /\ last.n < MaxRatings
    /\ \E rating \in Ratings : HandleRate(rating)

\* A day passes; a behaviour holds at most MaxDays of them.
Tick ==
    /\ now < StartTime + MaxDays * TicksPerDay
    /\ now' = now + TicksPerDay
    /\ last' = Op("tick", "none", last.n)
    /\ UNCHANGED <<cards, settings, reviewLog, session, mounted, queue,
                   initialQueueLength, completedCount, hasMoreNewCards>>

Next ==
    \/ LoadQueue
    \/ Rate
    \/ LoadMoreNewCards
    \/ Exit
    \/ Tick

Spec == Init /\ [][Next]_vars

-----------------------------------------------------------------------------
(* One sitting: the learner opens the Review view and keeps rating the card
   shown for as long as there is one, failing cards at most MaxAgain times in
   all. *)

MaxLive == 4    \* cards in the deck of a sitting
MaxAgain == 3   \* ratings "again" in one sitting

LiveDecks ==
    {[k \in 1..n |-> PoolCard(DeckOrder[k])] : n \in 0..Min(MaxLive, Len(DeckOrder))}

InitLive ==
    /\ cards \in LiveDecks
    /\ now = StartTime
    /\ settings \in SessionSettings
    /\ reviewLog = NoLog
    /\ session = NoSession
    /\ mounted = FALSE
    /\ queue = <<>>
    /\ initialQueueLength = 0
    /\ completedCount = 0
    /\ hasMoreNewCards = FALSE
    /\ last = Op("init", "none", 0)

\* The ratings "again" given so far: every rating either completes a card or
\* is one of them.
AgainsSoFar == last.n - completedCount

\* A sitting holds at most MaxAgain + MaxLive ratings, which is as many as
\* MaxAgain failures and a queue of MaxLive cards can take.
RateLive ==
    /\ last.n < MaxAgain + MaxLive
    /\ \E rating \in Ratings :
           /\ rating = "again" => AgainsSoFar < MaxAgain
           /\ HandleRate(rating)

NextLive ==
    \/ LoadQueue
    \/ RateLive

\* RateLive can be taken: a card is shown and the sitting has ratings left.
CanRate == mounted /\ queue # <<>> /\ last.n < MaxAgain + MaxLive

\* The mount effect runs, and the learner keeps rating the card shown: weak
\* fairness of LoadQueue and of RateLive, that is WF_vars(LoadQueue) and
\* WF_vars(RateLive) with the enabling conditions ~mounted and CanRate
\* written out.
SpecLive ==
    /\ InitLive
    /\ [][NextLive]_vars
    /\ ([]<>mounted \/ []<><<LoadQueue>>_vars)
    /\ ([]<>(~CanRate) \/ []<><<RateLive>>_vars)

-----------------------------------------------------------------------------
(* The stored deck: cards are created by a CSV import, from the library,
   from the AI import and from a story; stored cards are rated, reset and
   repaired, while the days pass. *)

MaxStored == 2   \* cards in the stored deck

\* An absent srsRepetitions field.
NoRepetitions == 0 - 1

\* A card as Import.handleAddMagicCards creates it at time t.
MagicCard(id, t) ==
    [id |-> id, srsState |-> "new", srsStability |-> 0, srsDifficulty |-> 500,
     srsDue |-> t, srsLastReview |-> EmptyStr, srsRepetitions |-> 0]

\* A card as handleAddCard of the story reader creates it at time t: it has no
\* srsRepetitions.
StoryCard(id, t) ==
    [id |-> id, srsState |-> "new", srsStability |-> 0, srsDifficulty |-> 500,
     srsDue |-> t, srsLastReview |-> EmptyStr, srsRepetitions |-> NoRepetitions]

\* Deck.resetProgress on one card.
resetProgress(c) ==
    [c EXCEPT !.srsRepetitions = 0, !.srsState = "new", !.srsStability = 0,
              !.srsDifficulty = 0, !.srsDue = EmptyStr]

\* storage.repairDeck on one card.
repaired(c) ==
    IF c.srsRepetitions = 0 /\ c.srsState # "new"
    THEN [c EXCEPT !.srsState = "new", !.srsDue = EmptyStr]
    ELSE IF c.srsState = "new" /\ c.srsDue # EmptyStr
    THEN [c EXCEPT !.srsDue = EmptyStr]
    ELSE IF c.srsRepetitions = NoRepetitions
    THEN [c EXCEPT !.srsRepetitions = 0, !.srsState = "new", !.srsDue = EmptyStr]
    ELSE c

InitDeck ==
    /\ cards = <<>>
    /\ now = StartTime
    /\ settings = [newCardsPerDay |-> 0, reviewLimit |-> 0]
    /\ reviewLog = NoLog
    /\ session = NoSession
    /\ mounted = FALSE
    /\ queue = <<>>
    /\ initialQueueLength = 0
    /\ completedCount = 0
    /\ hasMoreNewCards = FALSE
    /\ last = Op("init", "none", 0)

\* What the deck actions leave alone.
DeckFrame ==
    UNCHANGED <<settings, reviewLog, session, mounted, queue,
                initialQueueLength, completedCount, hasMoreNewCards>>

\* A card is added to the deck; ids are given in order of creation.
AddCard(name, card) ==
    /\ Len(cards) < MaxStored
    /\ cards' = Append(cards, card)
    /\ last' = Op(name, "none", last.n)
    /\ UNCHANGED now
    /\ DeckFrame

\* A CSV import of one row that is not in the deck.
MergeCards == AddCard("mergeCards", NewCard(Len(cards) + 1))

HandleAdd == AddCard("handleAdd", LibraryCard(Len(cards) + 1, now))

HandleAddMagicCards == AddCard("handleAddMagicCards", MagicCard(Len(cards) + 1, now))

HandleAddCard == AddCard("handleAddCard", StoryCard(Len(cards) + 1, now))

\* A stored card is rated in a review session; a behaviour holds at most
\* MaxReviews ratings.
RateStored(i, rating) ==
    /\ last.n < MaxReviews
    /\ LET updates == review(cards[i], rating, now)
       IN  IF updates.threw
           THEN /\ cards' = cards
                /\ last' = Op("review threw", rating, last.n + 1)
           ELSE /\ cards' = [cards EXCEPT ![i] = Updated(cards[i], updates)]
                /\ last' = Op("review", rating, last.n + 1)
    /\ UNCHANGED now
    /\ DeckFrame

ResetProgress(i) ==
    /\ cards' = [cards EXCEPT ![i] = resetProgress(cards[i])]
    /\ last' = Op("resetProgress", "none", last.n)
    /\ UNCHANGED now
    /\ DeckFrame

RepairDeck ==
    /\ cards' = [i \in 1..Len(cards) |-> repaired(cards[i])]
    /\ last' = Op("repairDeck", "none", last.n)
    /\ UNCHANGED now
    /\ DeckFrame

DeckTick ==
    /\ now < StartTime + MaxDays * TicksPerDay
    /\ now' = now + TicksPerDay
    /\ last' = Op("tick", "none", last.n)
    /\ UNCHANGED cards
    /\ DeckFrame

NextDeck ==
    \/ MergeCards
    \/ HandleAdd
    \/ HandleAddMagicCards
    \/ HandleAddCard
    \/ \E i \in 1..Len(cards), rating \in Ratings : RateStored(i, rating)
    \/ \E i \in 1..Len(cards) : ResetProgress(i)
    \/ RepairDeck
    \/ DeckTick

SpecDeck == InitDeck /\ [][NextDeck]_vars

-----------------------------------------------------------------------------
(* The dashboard and the review queue during a day: the learner rates stored
   cards, looks at the dashboard and opens the Review view, at several times
   of the day. *)

MaxLater == 3   \* steps of a fifth of a day in one behaviour

LaterStep == TicksPerDay \div 5

\* endOfToday of Home.loadData: now with setHours(23, 59, 59, 999), which is
\* in the last tick of the local day.
endOfToday(t) == (Today(t) + 1) * TicksPerDay - 1

\* The filter of dueCount in Home.loadData.
CountedDue(c, t) ==
    IF c.srsState = "new" \/ c.srsDue = EmptyStr THEN FALSE
    ELSE ~(getTime(c.srsDue) = NaN) /\ c.srsDue <= endOfToday(t)

dueCount(allCards, t) ==
    Len(SelectSeq(allCards, LAMBDA c : CountedDue(c, t)))

\* The call of a function that returned a number.
Count(name, value, n) ==
    [op |-> name, rating |-> "none", n |-> n, result |-> "count", value |-> value]

InitToday ==
    /\ cards \in {<<NewCard(1)>>, <<NewCard(1), LibraryCard(2, StartTime)>>}
    /\ now = StartTime
    /\ settings = [newCardsPerDay |-> MaxQuota, reviewLimit |-> 0]
    /\ reviewLog = NoLog
    /\ session = NoSession
    /\ mounted = FALSE
    /\ queue = <<>>
    /\ initialQueueLength = 0
    /\ completedCount = 0
    /\ hasMoreNewCards = FALSE
    /\ last = Op("init", "none", 0)

\* The dashboard mounts and computes its due count.
LoadData ==
    /\ ~mounted
    /\ last.op # "loadData"
    /\ last' = Count("loadData", dueCount(cards, now), last.n)
    /\ UNCHANGED <<cards, now, settings, reviewLog, session, mounted, queue,
                   initialQueueLength, completedCount, hasMoreNewCards>>

\* A fifth of a day passes.
Later ==
    /\ now < StartTime + MaxLater * LaterStep
    /\ now' = now + LaterStep
    /\ last' = Op("later", "none", last.n)
    /\ UNCHANGED <<cards, settings, reviewLog, session, mounted, queue,
                   initialQueueLength, completedCount, hasMoreNewCards>>

NextToday ==
    \/ \E i \in 1..Len(cards), rating \in Ratings : ~mounted /\ RateStored(i, rating)
    \/ LoadData
    \/ LoadQueue
    \/ Exit
    \/ Later

SpecToday == InitToday /\ [][NextToday]_vars

-----------------------------------------------------------------------------
(* fsrs.review and fsrs.preview as calls: a card is rated again and again as
   in the review specification, and between the ratings review and preview
   are called on it and their results looked at. *)

MaxCalls == 2   \* ratings between which review and preview are called

\* formatTime(minutes) for the minutes in d ticks: the number shown (tenths
\* of a year for "y") and its unit.
formatTime(d) ==
    IF d < One
    THEN IF d * 1440 < One THEN [n |-> 0, unit |-> "< 1m"]
         ELSE IF d * 1440 < 60 * One THEN [n |-> Round(d * 1440), unit |-> "m"]
         ELSE [n |-> Round(d * 24), unit |-> "h"]
    ELSE IF d < 30 * One THEN [n |-> Round(d), unit |-> "d"]
    ELSE IF d < 365 * One THEN [n |-> Round(d \div 30), unit |-> "mo"]
    ELSE [n |-> (d \div 365 + 500) \div 1000, unit |-> "y"]

\* fsrs.preview(card) at time t: the interval shown for every rating.
preview(card, t) ==
    [r \in Ratings |->
        LET next == review(card, r, t)
        IN  IF next.srsDue # EmptyStr THEN formatTime(next.srsDue - t)
            ELSE [n |-> 0, unit |-> "?"]]

\* The call of a function that returned a value.
Value(name, rating, value, n) ==
    [op |-> name, rating |-> rating, n |-> n, result |-> "value", value |-> value]

\* ReviewCall that writes what it computes into the card it was given.
ReviewCallInPlace(rating) ==
    /\ ~review(cards[1], rating, now).threw
    /\ last' = Value("review call", rating, review(cards[1], rating, now), last.n)
    /\ cards' = <<Updated(cards[1], review(cards[1], rating, now))>>
    /\ UNCHANGED <<now, settings, reviewLog, session, mounted, queue,
                   initialQueueLength, completedCount, hasMoreNewCards>>

\* fsrs.review(card, rating, now) is called and its result kept by the
\* caller: the function reads the card and builds a new object.
ReviewCall(rating) ==
    /\ ~review(cards[1], rating, now).threw
    /\ last' = Value("review call", rating, review(cards[1], rating, now), last.n)
    /\ UNCHANGED <<cards, now, settings, reviewLog, session, mounted, queue,
                   initialQueueLength, completedCount, hasMoreNewCards>>

\* fsrs.preview(card) is called; it raises when one of its review calls does.
Preview ==
    /\ IF \E r \in Ratings : review(cards[1], r, now).threw
       THEN last' = Op("preview threw", "none", last.n)
       ELSE last' = Value("preview", "none", preview(cards[1], now), last.n)
    /\ UNCHANGED <<cards, now, settings, reviewLog, session, mounted, queue,
                   initialQueueLength, completedCount, hasMoreNewCards>>

\* A behaviour holds at most MaxCalls ratings.
RateCalled ==
    /\ last.n < MaxCalls
    /\ \E rating \in Ratings, dt \in ElapsedChoices : ReviewCard(rating, dt)

NextCalls ==
    \/ RateCalled
    \/ \E rating \in Ratings : ReviewCall(rating)
    \/ Preview

SpecCalls == InitReview /\ [][NextCalls]_vars

-----------------------------------------------------------------------------
(* Ratings from the keyboard: keys 1 to 4 call the handleRate that the
   keydown listener holds, and the listener is replaced in an effect that runs
   after the render.  A second key that arrives before that is handled by the
   same handleRate, whose queue is the queue of the last render. *)

MaxKeys == 3   \* fsrs.review calls in one behaviour

\* Two ratings handled by the same handleRate closure: currentCard is both
\* times the head of the queue of the last render, while each setQueue
\* updater works on the queue the one before it left; the render that follows
\* saves or clears the session.
HandleRateTwice(first, second) ==
    /\ mounted
    /\ Len(queue) > 0
    /\ queue[1] # undefined
    /\ LET currentCard == queue[1]
           isNew       == currentCard.srsState = "new"
           updates1    == review(currentCard, first, now)
           updated1    == Updated(currentCard, updates1)
           index1      == FindIndex(cards, currentCard.id)
           cards1      == storedCards(cards, index1, updated1)
           log1        == IF index1 # 0 THEN logReview(reviewLog, now, isNew)
                          ELSE reviewLog
           queue1      == nextQueue(queue, first, updated1)
           count1      == nextCompletedCount(first, completedCount)
           updates2    == review(currentCard, second, now)
           updated2    == Updated(currentCard, updates2)
           index2      == FindIndex(cards1, currentCard.id)
       IN  /\ ~updates1.threw
           /\ ~updates2.threw
           /\ cards' = storedCards(cards1, index2, updated2)
           /\ reviewLog' = IF index2 # 0 THEN logReview(log1, now, isNew) ELSE log1
           /\ queue' = nextQueue(queue1, second, updated2)
           /\ completedCount' = nextCompletedCount(second, count1)
           /\ session' = SaveEffect(session, queue', initialQueueLength,
                                    completedCount')
           /\ hasMoreNewCards' = Rendered(queue', cards', settings, reviewLog', now)
           /\ last' = [op |-> "rate twice", rating |-> second, n |-> last.n + 2,
                       result |-> "none", first |-> first]
    /\ UNCHANGED <<now, settings, mounted, initialQueueLength>>

InitKeys ==
    /\ cards \in LiveDecks
    /\ now = StartTime
    /\ settings \in SessionSettings
    /\ reviewLog = NoLog
    /\ session = NoSession
    /\ mounted = FALSE
    /\ queue = <<>>
    /\ initialQueueLength = 0
    /\ completedCount = 0
    /\ hasMoreNewCards = FALSE
    /\ last = Op("init", "none", 0)

\* One key, handled after the render of the key before it.
RateKey ==
    /\ last.n < MaxKeys
    /\ \E rating \in Ratings : HandleRate(rating)

\* Two keys before the listener is replaced.
RateKeys ==
    /\ last.n + 1 < MaxKeys
    /\ \E first \in Ratings, second \in Ratings : HandleRateTwice(first, second)

NextKeys ==
    \/ LoadQueue
    \/ RateKey
    \/ RateKeys
    \/ Exit

SpecKeys == InitKeys /\ [][NextKeys]_vars

-----------------------------------------------------------------------------
(* The review session without the override: the learner opens the Review
   view, rates the card shown, leaves the view and comes back, while the days
   pass, and never asks for more new cards than the daily quota. *)

NextQuota ==
    \/ LoadQueue
    \/ Rate
    \/ Exit
    \/ Tick

SpecQuota == Init /\ [][NextQuota]_vars

-----------------------------------------------------------------------------
(* Properties of fsrs.review *)

\* A step in which fsrs.review returned and its result was stored.
ReviewStep == last'.op = "review" /\ last'.n = last.n + 1

ListedTransitions ==
    {<<"new", "learning">>, <<"new", "review">>,
     <<"learning", "relearning">>, <<"learning", "review">>,
     <<"review", "review">>, <<"review", "relearning">>,
     <<"relearning", "review">>, <<"relearning", "relearning">>}

\* Every state can be left: some rating takes the card to another state.
NoTerminalState ==
    \E rating \in Ratings :
        LET updates == review(cards[1], rating, now)
        IN  ~updates.threw /\ updates.srsState # cards[1].srsState

\* C8 as claimed: over any sequence of review() calls the only transitions
\* are the eight listed, review() never produces new, and no state is terminal.
C8_OnlyListedTransitions ==
    /\ [][ReviewStep =>
             <<cards[1].srsState, cards'[1].srsState>> \in ListedTransitions]_vars
    /\ []NoTerminalState

\* C8 as amended: the eight listed transitions and learning -> learning (a
\* learning card rated hard keeps its state); review() never produces new,
\* and no state is terminal.
C8_Transitions ==
    /\ [][ReviewStep =>
             <<cards[1].srsState, cards'[1].srsState>>
                 \in ListedTransitions \cup {<<"learning", "learning">>}]_vars
    /\ []NoTerminalState

\* A learning card was rated hard and is still learning.
C8_Witness ==
    /\ last.op = "review"
    /\ last.rating = "hard"
    /\ cards[1].srsState = "learning"

\* C9: review() of a new card yields learning on again and review on hard,
\* good or easy, whatever the card's other fields and whatever now.
C9_NewCardBranch ==
    [][ReviewStep /\ cards[1].srsState = "new" =>
          cards'[1].srsState =
              (IF last'.rating = "again" THEN "learning" ELSE "review")]_vars

\* A new card that carried a due date was rated hard a day later: the first
\* rating made it a review card.
C9_Witness ==
    /\ last.op = "review"
    /\ last.n = 1
    /\ last.rating = "hard"
    /\ now = StartTime + TicksPerDay
    /\ cards[1].srsDifficulty # 0
    /\ cards[1].srsState = "review"

\* C10: review() of a learning, review or relearning card yields relearning
\* on again, review on good or easy, and the card's own state on hard.
C10_ReviewedCardBranch ==
    [][ReviewStep /\ cards[1].srsState \in {"learning", "review", "relearning"} =>
          cards'[1].srsState =
              (CASE last'.rating = "again" -> "relearning"
                 [] last'.rating \in {"good", "easy"} -> "review"
                 [] OTHER -> cards[1].srsState)]_vars

\* A relearning card was rated hard and is still relearning.
C10_Witness ==
    /\ last.op = "review"
    /\ last.n >= 2
    /\ last.rating = "hard"
    /\ cards[1].srsState = "relearning"

\* On cards that began as newly created cards, review() always returns.
ReviewAlwaysReturns == last.op # "review threw"

-----------------------------------------------------------------------------
(* Properties of the build step *)

\* A step in which loadQueue built a queue.
LoadStep == ~mounted /\ mounted'

\* The persisted session loadQueue resumes from, if any.
HasPersisted == session.saved /\ Len(session.queue) > 0

IsCard(c) == c # undefined

\* A non-new card whose due date is valid and not after now.
DueNow(c) == c.srsDue >= 0 /\ c.srsDue <= now

ConsumedToday ==
    IF reviewLog.date = Today(now) THEN reviewLog.newCardsCount ELSE 0

QuotaLeft == Max(0, settings.newCardsPerDay - ConsumedToday)

StoredNew == SelectSeq(cards, LAMBDA c : c.srsState = "new")

ExpectedNew == SubSeq(StoredNew, 1, Min(Len(StoredNew), QuotaLeft))

ExpectedLearning ==
    SelectSeq(cards, LAMBDA c : c.srsState \in {"learning", "relearning"} /\ DueNow(c))

StoredDueReview == SelectSeq(cards, LAMBDA c : c.srsState = "review" /\ DueNow(c))

\* The due review cards, earliest due first (cards due at the same instant in
\* stored order): the i-th is the one with i - 1 cards before it.
ExpectedReview ==
    LET n == Len(StoredDueReview)
        Before(j, i) ==
            \/ StoredDueReview[j].srsDue < StoredDueReview[i].srsDue
            \/ StoredDueReview[j].srsDue = StoredDueReview[i].srsDue /\ j < i
        Rank(i) == Cardinality({j \in 1..n : Before(j, i)})
    IN  [k \in 1..n |-> StoredDueReview[CHOOSE i \in 1..n : Rank(i) = k - 1]]

ExpectedCandidates == ExpectedLearning \o ExpectedReview \o ExpectedNew

IsPrefix(p, q) == Len(p) <= Len(q) /\ p = SubSeq(q, 1, Len(p))

\* C1: the queue produced by the build step holds no two cards with the same
\* id, whatever the deck and the persisted session (one that repeats an id or
\* shares ids with the fresh candidates included).
C1_QueueDedup ==
    mounted =>
        \A i, j \in 1..Len(queue) :
            i # j /\ IsCard(queue[i]) /\ IsCard(queue[j]) => queue[i].id # queue[j].id

\* A queue of at least two cards was built from a persisted queue that
\* repeated an id: the repeated entry was dropped after being counted.
C1_Witness ==
    /\ mounted
    /\ Len(queue) >= 2
    /\ \A i \in 1..Len(queue) : IsCard(queue[i])
    /\ initialQueueLength - completedCount > Len(queue)

\* C4: with no persisted session, the new-state cards of the built queue are
\* the first min(#new, max(0, newCardsPerDay - consumedToday)) new cards in
\* stored order (all of them when no review limit cuts the list, a prefix
\* otherwise), and none at all when consumedToday >= newCardsPerDay.
C4_QuotaRespected ==
    [][LoadStep /\ ~HasPersisted =>
          LET taken == SelectSeq(queue', LAMBDA c : c.srsState = "new")
          IN  /\ IsPrefix(taken, ExpectedNew)
              /\ settings.reviewLimit = 0 => taken = ExpectedNew
              /\ ConsumedToday >= settings.newCardsPerDay => taken = <<>>]_vars

\* Part of today's quota was consumed, more new cards are stored than the
\* quota leaves, and the built queue holds the new cards the quota leaves.
C4_Witness ==
    /\ mounted
    /\ last.op = "loadQueue"
    /\ ConsumedToday >= 1
    /\ QuotaLeft >= 1
    /\ Len(StoredNew) > QuotaLeft
    /\ settings.reviewLimit = 0
    /\ initialQueueLength = Len(queue) /\ completedCount = 0
    /\ \E i \in 1..Len(queue) : queue[i].srsState = "new"

Priority(c) ==
    CASE c.srsState \in {"learning", "relearning"} -> 1
      [] c.srsState = "review" -> 2
      [] OTHER -> 3

\* C5: with no persisted session the built queue is in priority order: due
\* learning/relearning cards, then due review cards by ascending due date,
\* then new cards.
C5_PriorityOrder ==
    [][LoadStep /\ ~HasPersisted =>
          \A i, j \in 1..Len(queue') :
              i < j =>
                  /\ Priority(queue'[i]) <= Priority(queue'[j])
                  /\ queue'[i].srsState = "review" /\ queue'[j].srsState = "review"
                         => queue'[i].srsDue <= queue'[j].srsDue]_vars

\* A learning card and two review cards were queued in priority order although
\* the deck stores them in the opposite order.
C5_Witness ==
    /\ mounted
    /\ Len(queue) = 3 /\ Len(cards) = 3
    /\ initialQueueLength = 3 /\ completedCount = 0
    /\ queue[1].srsState \in {"learning", "relearning"}
    /\ queue[2].srsState = "review" /\ queue[3].srsState = "review"
    /\ queue[2].srsDue < queue[3].srsDue
    /\ cards[1] = queue[3] /\ cards[2] = queue[2] /\ cards[3] = queue[1]

\* C6: with no persisted session, the built queue is the first reviewLimit
\* entries of the priority-ordered candidate list when reviewLimit > 0, and
\* the whole list when reviewLimit = 0.
C6_ReviewLimit ==
    [][LoadStep /\ ~HasPersisted =>
          IF settings.reviewLimit > 0
          THEN /\ Len(queue') <= settings.reviewLimit
               /\ queue' = SubSeq(ExpectedCandidates, 1,
                                   Min(settings.reviewLimit, Len(ExpectedCandidates)))
          ELSE queue' = ExpectedCandidates]_vars

\* A candidate list longer than the review limit was cut to the limit.
C6_Witness ==
    /\ mounted
    /\ last.op = "loadQueue"
    /\ settings.reviewLimit > 0
    /\ Len(ExpectedCandidates) > settings.reviewLimit
    /\ Len(queue) = settings.reviewLimit
    /\ initialQueueLength = Len(queue) /\ completedCount = 0

\* The fresh candidates: the priority-ordered list, cut to the review limit.
ExpectedFresh ==
    IF settings.reviewLimit > 0
    THEN SubSeq(ExpectedCandidates, 1, Min(settings.reviewLimit, Len(ExpectedCandidates)))
    ELSE ExpectedCandidates

\* The fresh candidates whose id is not in the persisted queue.
ExpectedAppended ==
    SelectSeq(ExpectedFresh, LAMBDA c : c.id \notin IdSet(session.queue))

\* C7: resuming from a non-empty persisted session, the built queue is the
\* persisted queue's cards in their persisted order followed by exactly the
\* fresh candidates whose id is not in the persisted queue; initialLength is
\* the persisted initialLength plus the number appended, and completedCount is
\* the persisted completedCount.
C7_ResumeMerge ==
    [][LoadStep /\ HasPersisted =>
          /\ \A i \in 1..Len(queue') : IsCard(queue'[i])
          /\ Ids(queue') = Dedup(Ids(session.queue)) \o Ids(ExpectedAppended)
          /\ initialQueueLength' = session.initialQueueLength + Len(ExpectedAppended)
          /\ completedCount' = session.completedCount]_vars

\* C7 where every card of the persisted queue is still in the deck.
C7_ResumeMergeNoneDeleted ==
    [][LoadStep /\ HasPersisted /\ IdSet(session.queue) \subseteq IdSet(cards) =>
          /\ \A i \in 1..Len(queue') : IsCard(queue'[i])
          /\ Ids(queue') = Dedup(Ids(session.queue)) \o Ids(ExpectedAppended)
          /\ initialQueueLength' = session.initialQueueLength + Len(ExpectedAppended)
          /\ completedCount' = session.completedCount]_vars

-----------------------------------------------------------------------------
(* Properties of handleRate *)

\* A step in which handleRate ran to its end with the given rating.
RateStep(rating) ==
    /\ last'.op = "rate"
    /\ last'.n = last.n + 1
    /\ last'.rating = rating

\* q without its i-th entry.
Without(q, i) == [j \in 1..(Len(q) - 1) |-> IF j < i THEN q[j] ELSE q[j + 1]]

\* C2: when the head of a queue of N >= 1 cards is rated again, the updated
\* card (the one written to storage: same id, just reviewed, learning or
\* relearning) is at 0-based index min(N-1, 3) of the new queue, and the
\* other N-1 cards keep their order; for N > 3 that is index 3, and a queue
\* of five becomes [card2, card3, card4, updatedCard1, card5].
C2_AgainReinsertion ==
    [][RateStep("again") =>
          LET N == Len(queue)
              k == Min(N - 1, 3) + 1
          IN  /\ N >= 1
              /\ Len(queue') = N
              /\ queue'[k].id = queue[1].id
              /\ queue'[k].srsLastReview = now
              /\ queue'[k].srsState \in {"learning", "relearning"}
              /\ \E i \in 1..Len(cards') : cards'[i] = queue'[k]
              /\ Without(queue', k) = Tail(queue)
              /\ N > 3 => k = 4
              /\ N = 5 => queue' = <<queue[2], queue[3], queue[4], queue'[k], queue[5]>>
      ]_vars

\* A queue of five whose fourth card has just been rated again.
C2_Witness ==
    /\ last.op = "rate"
    /\ last.rating = "again"
    /\ Len(queue) = 5
    /\ queue[4].srsLastReview = now
    /\ queue[4].srsState \in {"learning", "relearning"}

\* C3: rating the head again leaves completedCount and the length of the
\* queue unchanged and the card in the queue; rating it hard, good or easy
\* takes it out of the queue (one card fewer), adds exactly one to
\* completedCount, and no rating ever puts into the queue a card that was
\* not in it.
C3_RatingCounts ==
    [][\A rating \in Ratings :
          RateStep(rating) =>
              /\ IdSet(queue') \subseteq IdSet(queue)
              /\ IF rating = "again"
                 THEN /\ completedCount' = completedCount
                      /\ Len(queue') = Len(queue)
                      /\ queue[1].id \in IdSet(queue')
                 ELSE /\ completedCount' = completedCount + 1
                      /\ Len(queue') = Len(queue) - 1
                      /\ queue[1].id \notin IdSet(queue')
      ]_vars

\* A session in which one card was rated again and then another was cleared,
\* with cards still to go.
C3_Witness ==
    /\ last.op = "rate"
    /\ last.rating # "again"
    /\ last.n >= 2
    /\ completedCount = 1
    /\ Len(queue) >= 2
    /\ \E i \in 1..Len(queue) : queue[i].srsLastReview = now

-----------------------------------------------------------------------------
(* Properties of isCardDue *)

\* C11: isCardDue answers false when the due field is unset or does not
\* parse, and otherwise answers true exactly when due <= now; every call
\* ends with an answer.
C11_IsDue ==
    last.op = "isCardDue" =>
        /\ last.result \in {"true", "false"}
        /\ cards[1].srsDue \in {EmptyStr, BadStr} => last.result = "false"
        /\ cards[1].srsDue \notin {EmptyStr, BadStr} =>
               (last.result = "true" <=> cards[1].srsDue <= now)

\* A card due at this very instant is reported due.
C11_Witness ==
    /\ last.op = "isCardDue"
    /\ cards[1].srsDue = now
    /\ last.result = "true"

\* C12: isCardDue answers false for every card in state new, whatever its
\* due field holds.
C12_NewNeverDue ==
    last.op = "isCardDue" /\ cards[1].srsState = "new" => last.result = "false"

-----------------------------------------------------------------------------
(* Properties of fsrs.review on any stored card *)

\* C13: review() returns a result and never raises, for every card, rating
\* and time, also when lastReview is later than now or unparseable and when
\* a card that is not new has stability 0; the due date it returns is a
\* valid timestamp.
C13_ReviewNeverRaises ==
    /\ last.op # "review threw"
    /\ last.op = "review" => cards[1].srsDue >= 0 /\ cards[1].srsLastReview = now

\* C13 for a last review date that lies in the future: the elapsed time is
\* clamped to 0 and review() returns.
C13_FutureLastReview ==
    [][last'.n = last.n + 1 /\ cards[1].srsLastReview > now' => last'.op = "review"]_vars

-----------------------------------------------------------------------------
(* Properties of the schedule *)

\* C14: after any sequence of review() calls on a newly created card, the
\* stability returned lies in [0.1, 36500] and the difficulty returned lies
\* in [1, 10] (stored values are hundredths).
C14_Bounded ==
    last.op = "review" =>
        /\ cards[1].srsStability >= Hundredth \div 10
        /\ cards[1].srsStability <= maximum_interval \div Hundredth
        /\ cards[1].srsDifficulty >= Hundredth
        /\ cards[1].srsDifficulty <= 10 * Hundredth

\* The stability has grown to the cap and the difficulty has sunk to 1.
C14_Witness ==
    /\ last.op = "review"
    /\ cards[1].srsStability = maximum_interval \div Hundredth
    /\ cards[1].srsDifficulty = Hundredth

\* C15: whenever review() returns a card in state review, its due date is
\* now + k days for a whole number k >= 1.
C15_WholeDays ==
    [][ReviewStep /\ cards'[1].srsState = "review" =>
          /\ cards'[1].srsDue - now' >= TicksPerDay
          /\ (cards'[1].srsDue - now') % TicksPerDay = 0]_vars

\* A card in state review that has just been given an interval of more than
\* a day.
C15_Witness ==
    /\ last.op = "review"
    /\ cards[1].srsState = "review"
    /\ cards[1].srsLastReview = now
    /\ cards[1].srsDue >= now + 2 * TicksPerDay

\* C16: whenever review() returns a card in state learning or relearning,
\* its due date follows the short-term rule: now + max(0.0035, S' * factor)
\* days, S' being the stability returned, which is stored to the nearest
\* hundredth (so the two sides differ by less than 0.005 days).
C16_ShortTermRule ==
    [][ReviewStep /\ cards'[1].srsState \in {"learning", "relearning"} =>
          LET days  == cards'[1].srsDue - now'
              short == MathMax(MinShortTerm,
                               Mul(cards'[1].srsStability * Hundredth, factor))
          IN  /\ days >= MinShortTerm
              /\ days - short <= Hundredth \div 2
              /\ short - days <= Hundredth \div 2]_vars

\* C16 for the cards that review() leaves in relearning or moves to
\* learning: those do follow the short-term rule.
C16_ShortTermRuleOnAgain ==
    [][ReviewStep /\ last'.rating = "again" =>
          LET days  == cards'[1].srsDue - now'
              short == MathMax(MinShortTerm,
                               Mul(cards'[1].srsStability * Hundredth, factor))
          IN  /\ cards'[1].srsState \in {"learning", "relearning"}
              /\ days >= MinShortTerm
              /\ days - short <= Hundredth \div 2
              /\ short - days <= Hundredth \div 2]_vars

-----------------------------------------------------------------------------
(* Properties of a sitting *)

SessionOver == mounted /\ queue = <<>>

AgainStep == RateStep("again")

\* C17: when the learner keeps rating the card shown, the queue becomes
\* empty (the session ends) unless cards are rated again infinitely often:
\* once every card has had a rating of hard, good or easy the session is
\* over.
C17_SessionEnds == <>SessionOver \/ []<><<AgainStep>>_vars

\* A session of at least two cards that ended after MaxAgain failures.
C17_Witness ==
    /\ SessionOver
    /\ last.op = "rate"
    /\ completedCount >= 2
    /\ AgainsSoFar = MaxAgain

\* The cap on the ratings of a sitting never stops the learner in front of a
\* card.
RatingsNeverRunOut ==
    mounted /\ queue # <<>> => last.n < MaxAgain + MaxLive

-----------------------------------------------------------------------------
(* Properties of the override *)

\* A step in which "Study 10 More New Words" was taken.
LoadMoreStep == last'.op = "loadMoreNewCards" /\ last.op # "loadMoreNewCards"

\* C18: the override is taken only with an empty queue; it makes the queue
\* the first new cards of the deck, at most MoreBatch of them, whatever the
\* daily quota; it adds their number to initialQueueLength and leaves
\* completedCount, the deck and the daily log alone; the daily log changes
\* only when a card is rated.
C18_Override ==
    [][(LoadMoreStep =>
           /\ queue = <<>>
           /\ IsPrefix(queue', StoredNew)
           /\ Len(queue') = Min(MoreBatch, Len(StoredNew))
           /\ initialQueueLength' = initialQueueLength + Len(queue')
           /\ completedCount' = completedCount
           /\ reviewLog' = reviewLog
           /\ cards' = cards)
       /\ (reviewLog' # reviewLog => \E rating \in Ratings : RateStep(rating))
      ]_vars

\* The override has just loaded MoreBatch of more than MoreBatch new cards,
\* with the daily quota used up.
C18_Witness ==
    /\ last.op = "loadMoreNewCards"
    /\ Len(queue) = MoreBatch
    /\ Len(StoredNew) > MoreBatch
    /\ settings.newCardsPerDay > 0
    /\ getDailyCount(reviewLog, now) >= settings.newCardsPerDay
    /\ initialQueueLength = MoreBatch + 1

-----------------------------------------------------------------------------
(* Properties of the stored deck *)

\* C20: after every rating handled in a session, the deck in storage holds
\* for the rated card exactly the state, stability, difficulty, due date and
\* last review date that review() returned for that rating (and every other
\* card as it was), so that leaving the view loses no rating.
C20_RatingStored ==
    [][\A rating \in Ratings :
          RateStep(rating) =>
              LET i == FindIndex(cards, queue[1].id)
                  u == review(queue[1], rating, now)
              IN  /\ i # 0
                  /\ Len(cards') = Len(cards)
                  /\ cards'[i].id = queue[1].id
                  /\ cards'[i].srsState = u.srsState
                  /\ cards'[i].srsStability = u.srsStability
                  /\ cards'[i].srsDifficulty = u.srsDifficulty
                  /\ cards'[i].srsDue = u.srsDue
                  /\ cards'[i].srsLastReview = u.srsLastReview
                  /\ \A j \in 1..Len(cards) : j # i => cards'[j] = cards[j]
      ]_vars

\* The learner has left the view after a rating, and the deck holds the
\* rated card as reviewed at that time.
C20_Witness ==
    /\ last.op = "exit"
    /\ ~mounted
    /\ last.n >= 1
    /\ \E i \in 1..Len(cards) :
           cards[i].srsLastReview = now /\ cards[i].srsState # "new"

\* C19: in every state of the stored deck, a card is in state new if and
\* only if its due field is unset.
C19_NewIffNoDue ==
    \A i \in 1..Len(cards) :
        cards[i].srsState = "new" <=> cards[i].srsDue = EmptyStr

\* C19 from right to left: a card whose due field is unset is new.
C19_NoDueOnlyNew ==
    \A i \in 1..Len(cards) :
        cards[i].srsDue = EmptyStr => cards[i].srsState = "new"

-----------------------------------------------------------------------------
(* Properties of the persisted session *)

\* C21: while the Review view is open (after the build step, after every
\* rating and after every override), the persisted session is the queue,
\* initialQueueLength and completedCount of the component whenever the queue
\* is non-empty, and there is no persisted session when the queue is empty;
\* so the session is never cleared while the queue is non-empty.
C21_SnapshotInSync ==
    mounted =>
        IF queue # <<>>
        THEN session = SavedSession(queue, initialQueueLength, completedCount)
        ELSE session = NoSession

\* The last card of a session of two cards or more has just been rated: the session that
\* was persisted with work done is cleared.
C21_Witness ==
    /\ mounted
    /\ last.op = "rate"
    /\ queue = <<>>
    /\ completedCount >= 2
    /\ session = NoSession

\* A session persisted after a rating that left cards in the queue.
C21_WitnessSaved ==
    /\ mounted
    /\ last.op = "rate"
    /\ queue # <<>>
    /\ completedCount >= 1
    /\ session = SavedSession(queue, initialQueueLength, completedCount)

-----------------------------------------------------------------------------
(* Properties of the due definition *)

\* A card that is not new and whose due date is a timestamp of today or of
\* an earlier day.
DueByEndOfToday(c, t) ==
    /\ c.srsState # "new"
    /\ c.srsDue >= 0
    /\ c.srsDue <= endOfToday(t)

\* C22: a card that is not new and is due at or before the end of the
\* current local day is treated as due, also when it is due later than the
\* current instant: the dashboard counts it, and a session built with no
\* review limit holds it.
C22_DueToday ==
    /\ last.op = "loadData" =>
           last.value = Cardinality({i \in 1..Len(cards) : DueByEndOfToday(cards[i], now)})
    /\ last.op = "loadQueue" =>
           \A i \in 1..Len(cards) :
               DueByEndOfToday(cards[i], now) => cards[i].id \in IdSet(queue)

\* C22 for the dashboard alone: its due count is the number of cards that
\* are not new and due by the end of today.
C22_DashboardCount ==
    last.op = "loadData" =>
        last.value = Cardinality({i \in 1..Len(cards) : DueByEndOfToday(cards[i], now)})

\* C22 for the queue, with the current instant in place of the end of the
\* day: a session built with no review limit holds every card that is not
\* new and due by now.
C22_DueNowQueued ==
    last.op = "loadQueue" =>
        \A i \in 1..Len(cards) :
            cards[i].srsState # "new" /\ cards[i].srsDue >= 0 /\ cards[i].srsDue <= now
                => cards[i].id \in IdSet(queue)

-----------------------------------------------------------------------------
(* Properties of fsrs.review and fsrs.preview as calls *)

\* The fields of what fsrs.review returns.
ReviewFields ==
    {"srsState", "srsStability", "srsDifficulty", "srsDue", "srsLastReview"}

\* C23: a call of review() or preview() changes neither the card it was
\* given, nor the stored cards, the queue, the session or the daily log;
\* review() returns values for state, stability, difficulty, due and
\* lastReview only, with lastReview the time it was given; and a card merged
\* with that result keeps its id and every other field.
C23_NoSideEffects ==
    [][/\ (last'.op \in {"review call", "preview", "preview threw"} =>
              /\ cards' = cards
              /\ queue' = queue
              /\ reviewLog' = reviewLog
              /\ session' = session)
       /\ (last'.op = "review call" =>
              /\ DOMAIN last'.value \ {"threw"} = ReviewFields
              /\ last'.value.srsLastReview = now)
       /\ (ReviewStep =>
              /\ cards'[1].id = cards[1].id
              /\ cards'[1].srsRepetitions = cards[1].srsRepetitions
              /\ cards'[1].srsLastReview = now'
              /\ DOMAIN cards'[1] = DOMAIN cards[1])
      ]_vars

\* review() was called on a card in review with the rating again: it
\* returned the state relearning, and the card is still in review.
C23_Witness ==
    /\ last.op = "review call"
    /\ last.rating = "again"
    /\ cards[1].srsState = "review"
    /\ last.value.srsState = "relearning"
    /\ last.value.srsLastReview = now
    /\ last.value.srsDue # cards[1].srsDue

\* preview() of a new card: minutes for again, days for the other ratings.
C23_WitnessPreview ==
    /\ last.op = "preview"
    /\ cards[1].srsState = "new"
    /\ last.value["again"].unit \in {"m", "h"}
    /\ last.value["easy"].unit = "d"

-----------------------------------------------------------------------------
(* Properties of the daily log *)

\* The counters of the day as a reader at time t finds them.
TotalRatings(log, t) == getDailyLog(log, t).totalReviews
NewRatings(log, t) == getDailyLog(log, t).newCardsCount

\* C24: a rating of a card that is in the stored deck adds exactly 1 to the
\* day's total-ratings counter, and adds 1 to the day's new-card counter if
\* the stored card was in state new before the rating and 0 otherwise; and
\* both counters read 0 when the local date is not the date of the log.
C24_DailyLog ==
    [][/\ \A rating \in Ratings :
              RateStep(rating) /\ FindIndex(cards, queue[1].id) # 0 =>
                  /\ TotalRatings(reviewLog', now) = TotalRatings(reviewLog, now) + 1
                  /\ NewRatings(reviewLog', now) =
                         NewRatings(reviewLog, now)
                             + (IF cards[FindIndex(cards, queue[1].id)].srsState = "new"
                                THEN 1 ELSE 0)
       /\ (reviewLog'.date # Today(now') =>
              TotalRatings(reviewLog', now') = 0 /\ NewRatings(reviewLog', now') = 0)
      ]_vars

\* The first rating of a new day, of a card that was rated as a new card the
\* day before: the log of the new day counts one rating and no new card.
C24_Witness ==
    /\ last.op = "rate"
    /\ last.n >= 2
    /\ Today(now) > Today(StartTime)
    /\ reviewLog.date = Today(now)
    /\ reviewLog.totalReviews = 1
    /\ reviewLog.newCardsCount = 0

\* A day has passed since the log was written: its counters read 0.
C24_WitnessReset ==
    /\ last.op = "tick"
    /\ reviewLog # NoLog
    /\ reviewLog.newCardsCount >= 1
    /\ reviewLog.date # Today(now)
    /\ NewRatings(reviewLog, now) = 0

-----------------------------------------------------------------------------
(* Properties of the progress counters *)

\* C25: while the Review view is open, after the build step (fresh, or
\* resumed from a persisted session in which completedCount and the length
\* of the queue add up to initialQueueLength), after every rating and after
\* every override, completedCount + the length of the queue =
\* initialQueueLength.
C25_ProgressAdds ==
    mounted => completedCount + Len(queue) = initialQueueLength

\* The persisted session, if there is one, satisfies the equality.
PersistedAdds ==
    session.saved =>
        session.completedCount + Len(session.queue) = session.initialQueueLength

\* C25 in sessions that the build step, single ratings and the override
\* produce: the equality holds, in the component and in what it persists,
\* and the position shown does not exceed initialQueueLength.
C25_ProgressAddsInSession ==
    /\ PersistedAdds
    /\ mounted => completedCount + Len(queue) = initialQueueLength
    /\ mounted /\ queue # <<>> => completedCount + 1 <= initialQueueLength

-----------------------------------------------------------------------------
(* Properties of the entries of the built queue *)

\* C26: every entry of the queue that the build step returns is a card of
\* the stored deck (the stored card with that id), whatever the deck and the
\* persisted session, also when the persisted session names a card that has
\* since been deleted from the deck.
C26_QueueOfStoredCards ==
    last.op = "loadQueue" =>
        \A i \in 1..Len(queue) :
            /\ queue[i] # undefined
            /\ \E j \in 1..Len(cards) : cards[j] = queue[i]

\* C26 where every card of the persisted queue is still in the deck.
C26_QueueOfStoredCardsNoneDeleted ==
    last.op = "loadQueue" /\ IdSet(session.queue) \subseteq IdSet(cards) =>
        \A i \in 1..Len(queue) :
            /\ queue[i] # undefined
            /\ \E j \in 1..Len(cards) : cards[j] = queue[i]

-----------------------------------------------------------------------------
(* Properties of ratings from the keyboard *)

\* A step in which two ratings were handled by one handleRate closure.
TwiceStep == last'.op = "rate twice" /\ last'.n = last.n + 2

\* The stored card with this id was reviewed in the step.
ReviewedInStep(id) ==
    \E i \in 1..Len(cards) :
        cards[i].id = id /\ cards'[i] # cards[i] /\ cards'[i].srsLastReview = now

\* C30: when two ratings are handled before the component renders again,
\* each of them is applied to the card at the head of the queue at that
\* moment: a card that leaves the queue has been reviewed, a queue of two or
\* more cards has its first and its second card reviewed (no card is
\* reviewed twice from the same state), and the daily log counts no more new
\* cards than new cards were reviewed.
C30_EachRatingItsHead ==
    [][TwiceStep =>
          /\ \A id \in IdSet(queue) \ IdSet(queue') : ReviewedInStep(id)
          /\ Len(queue) >= 2 => ReviewedInStep(queue[1].id) /\ ReviewedInStep(queue[2].id)
          /\ NewRatings(reviewLog', now) - NewRatings(reviewLog, now)
                 <= Cardinality({i \in 1..Len(cards) :
                                    cards[i].srsState = "new" /\ cards'[i] # cards[i]})
      ]_vars

\* C30 for single keys: a card that leaves the queue has been reviewed, and
\* the daily log counts a new card only when a new card was reviewed.
C30_SingleKeys ==
    [][\A rating \in Ratings :
          RateStep(rating) =>
              /\ \A id \in IdSet(queue) \ IdSet(queue') : ReviewedInStep(id)
              /\ ReviewedInStep(queue[1].id)
              /\ NewRatings(reviewLog', now) - NewRatings(reviewLog, now)
                     <= Cardinality({i \in 1..Len(cards) :
                                        cards[i].srsState = "new" /\ cards'[i] # cards[i]})
      ]_vars

\* No id is twice in the queue.
QueueHasNoDuplicates ==
    \A i \in 1..Len(queue), j \in 1..Len(queue) : queue[i].id = queue[j].id => i = j

-----------------------------------------------------------------------------
(* Properties of the daily quota *)

\* C27: with fixed settings and without the override, the new-card counter
\* of a day never exceeds newCardsPerDay, however often the session is
\* built, resumed and truncated and however often cards are rated again.
C27_QuotaKept ==
    /\ NewRatings(reviewLog, now) <= settings.newCardsPerDay
    /\ reviewLog # NoLog => reviewLog.newCardsCount <= settings.newCardsPerDay

\* The quota of the day is used up, in a session that was left and resumed,
\* and a card that was rated again as a new card has been rated once more.
C27_Witness ==
    /\ last.op = "rate"
    /\ last.n = MaxRatings
    /\ session.saved
    /\ NewRatings(reviewLog, now) = settings.newCardsPerDay
    /\ TotalRatings(reviewLog, now) > NewRatings(reviewLog, now)
    /\ \E i \in 1..Len(cards) : cards[i].srsState = "new"

-----------------------------------------------------------------------------
(* Properties of storage.repairDeck *)

\* A step in which repairDeck ran.
RepairStep == last'.op = "repairDeck"

\* C28: repairDeck is idempotent: run on the deck that a repairDeck run
\* left, it changes no card.
C28_RepairIdempotent ==
    [][RepairStep /\ last.op = "repairDeck" => cards' = cards]_vars

\* C28 from the third run on: two runs in a row reach a deck that a further
\* run leaves alone.
C28_RepairedTwiceIsStable ==
    \A i \in 1..Len(cards) : repaired(repaired(repaired(cards[i]))) = repaired(repaired(cards[i]))

\* The card satisfies the invariants of the data model: a new card has no
\* due date, and a card that is not new has a due date and a stability.
WellFormed(c) ==
    IF c.srsState = "new" THEN c.srsDue = EmptyStr
    ELSE c.srsDue >= 0 /\ c.srsStability >= 0

\* C29: repairDeck leaves every card alone that satisfies the invariants of
\* the data model; a card that was created by an import or an add and then
\* rated keeps its state and its due date.
C29_RepairKeepsSound ==
    [][RepairStep =>
          \A i \in 1..Len(cards) : WellFormed(cards[i]) => cards'[i] = cards[i]]_vars

\* C29 for cards that were never rated: repairDeck leaves a new card without
\* a due date in state new and without a due date.
C29_RepairKeepsNew ==
    [][RepairStep =>
          \A i \in 1..Len(cards) :
              cards[i].srsState = "new" /\ cards[i].srsDue = EmptyStr =>
                  cards'[i].srsState = "new" /\ cards'[i].srsDue = EmptyStr]_vars

=============================================================================
